---- MODULE Spec2Model ----
(***************************************************************************)
(* Model of the RCA execution engine: the state container and its merge    *)
(* policy (state/rca_state.py), the node contract (agents/*.py), the       *)
(* routing rules and graph topology (graph/rca_graph.py) and the engine    *)
(* entry point (orchestrator/engine.py, system/engine.py).                 *)
(*                                                                         *)
(* Python values are modelled as follows: a dict is a function whose       *)
(* DOMAIN is its key set, a list is a sequence, {} and [] are <<>>, None   *)
(* returned by a log backend is "" (the agents only test truthiness),      *)
(* a confidence float is an integer number of tenths (1.0 is 10), and an   *)
(* exception is the name of its class.                                     *)
(***************************************************************************)
EXTENDS Integers, Sequences, FiniteSets, TLC

\* ------------------------------------------------------------------------
\* Bounds
\* ------------------------------------------------------------------------
\* Longest accumulator (errors / decision_path / agent_history) drawn as an
\* input of the merge operation.
MaxAcc == 2

\* ------------------------------------------------------------------------
\* Value domains
\* ------------------------------------------------------------------------
Nodes == {"log_fetcher", "driver_failure", "summarizer", "lineage",
          "category", "rca", "solution"}

END == "__end__"

NoError == "none"

JobIds == {"j1", "j2"}

JobName(job_id) == IF job_id = "j1" THEN "n1" ELSE "n2"

RunIds == {"r1"}

Clock == {"t1", "t2"}

\* ------------------------------------------------------------------------
\* State container (state/rca_state.py)
\* ------------------------------------------------------------------------
RCAState == {"job_id", "job_name", "logs", "summary", "root_cause",
             "solution", "category", "lineage", "execution_id",
             "start_time", "end_time", "status", "errors", "decision_path",
             "agent_history", "confidence_scores", "driver_failure",
             "retrieval_context", "log_source", "error_type",
             "error_message", "severity", "resolution", "solution_source"}

_required_keys == {"job_id", "job_name", "logs", "summary", "root_cause",
                   "solution", "category", "lineage", "execution_id",
                   "start_time", "end_time", "status", "errors",
                   "decision_path", "agent_history", "confidence_scores",
                   "driver_failure", "retrieval_context", "log_source",
                   "error_type", "error_message", "severity", "resolution",
                   "solution_source"}

create_initial_with_category(job_id, job_name, execution_id, start_time) ==
    [job_id |-> job_id, job_name |-> job_name, logs |-> "", summary |-> "",
     root_cause |-> "", solution |-> "", category |-> "infrastructure",
     lineage |-> <<>>,
     execution_id |-> execution_id, start_time |-> start_time,
     end_time |-> "", status |-> "running", errors |-> <<>>,
     decision_path |-> <<>>, agent_history |-> <<>>,
     confidence_scores |-> <<>>, driver_failure |-> FALSE,
     retrieval_context |-> <<>>, log_source |-> "none", error_type |-> "",
     error_message |-> "", severity |-> "", resolution |-> <<>>,
     solution_source |-> ""]

create_initial(job_id, job_name, execution_id, start_time) ==
    [job_id |-> job_id, job_name |-> job_name, logs |-> "", summary |-> "",
     root_cause |-> "", solution |-> "", category |-> "", lineage |-> <<>>,
     execution_id |-> execution_id, start_time |-> start_time,
     end_time |-> "", status |-> "running", errors |-> <<>>,
     decision_path |-> <<>>, agent_history |-> <<>>,
     confidence_scores |-> <<>>, driver_failure |-> FALSE,
     retrieval_context |-> <<>>, log_source |-> "none", error_type |-> "",
     error_message |-> "", severity |-> "", resolution |-> <<>>,
     solution_source |-> ""]

\* dict.update: every key of u replaces or adds, every other key is kept.
DictUpdate(d, u) ==
    [k \in (DOMAIN d) \cup (DOMAIN u) |-> IF k \in DOMAIN u THEN u[k] ELSE d[k]]

\* dict.get(key, default)
Get(d, k, default) == IF k \in DOMAIN d THEN d[k] ELSE default

clone_with_updates(state, updates) == DictUpdate(state, updates)

\* The dict passed to clone_with_updates, after the call: the update is
\* applied to deepcopy(state), which shares no object with the state.
clone_with_updates_input_aliased(state, updates) == DictUpdate(state, updates)

clone_with_updates_input(state, updates) == state

\* RCAStateValidator.validate: TRUE when it returns, FALSE when it raises
\* ValueError (every modelled value is JSON-serialisable).
validate(state) == _required_keys \subseteq DOMAIN state

\* The state schema declares one plain channel per key of RCAState and no
\* reducer on any of them: the graph keeps, for every key of a node's
\* partial update, the value of the update.
GraphMerge(state, updates) ==
    [k \in ((DOMAIN state) \cup (DOMAIN updates)) \cap RCAState |->
        IF k \in DOMAIN updates THEN updates[k] ELSE state[k]]

\* StateGraph(RCAState): the graph reads from its input the keys of the
\* schema only.
GraphInput(state) == [k \in (DOMAIN state) \cap RCAState |-> state[k]]

\* ------------------------------------------------------------------------
\* Node contract (agents/base_agent.py)
\* ------------------------------------------------------------------------
AgentResult(status, data, confidence, meta) ==
    [status |-> status, data |-> data, confidence |-> confidence, meta |-> meta]

ErrorEntry(code, message, source) ==
    [code |-> code, message |-> message, source |-> source, details |-> <<>>]

\* An exception is [kind, msg]; _wrap_exception builds an AgentError whose
\* text carries the node name, the message and the original error.
_wrap_exception(name, message, error) ==
    [kind |-> "AgentError", msg |-> <<name, message, error>>]

_append_history_no_path(name, state, result, partial_state) ==
    LET scores == DictUpdate(Get(state, "confidence_scores", <<>>),
                             name :> result.confidence)
    IN  DictUpdate(partial_state,
                   [agent_history |-> <<[agent |-> name, result |-> result]>>,
                    confidence_scores |-> scores])

_append_history(name, state, result, partial_state) ==
    LET scores == DictUpdate(Get(state, "confidence_scores", <<>>),
                             name :> result.confidence)
    IN  DictUpdate(partial_state,
                   [agent_history |-> <<[agent |-> name, result |-> result]>>,
                    decision_path |-> <<name>>,
                    confidence_scores |-> scores])

_attach_error(name, state, error) ==
    [errors |-> <<ErrorEntry(error.kind, error.msg, name)>>,
     status |-> "failed"]

\* ------------------------------------------------------------------------
\* Collaborators (external, opaque): the outcome of every call is fixed by
\* the environment of the run.  A call either returns val or raises err.
\* ------------------------------------------------------------------------
Returns(v) == [ok |-> TRUE, val |-> v, err |-> NoError]

Raises(kind, v) == [ok |-> FALSE, val |-> v, err |-> kind]

LogCalls(text) == {Returns(""), Returns(text), Raises("AgentError", "")}

DetectCalls == {Returns(TRUE), Returns(FALSE), Raises("AgentError", FALSE)}

LineageCalls == {Returns(<<>>), Returns(<<"table_a">>),
                 Raises("StorageError", <<>>)}

SummarizerData == [summary |-> "heartbeat timeout detected",
                   error_type |-> "Timeout",
                   error_message |-> "executor heartbeat timed out"]

LLMCalls(prompt) ==
    CASE prompt = "summarizer" ->
           {Returns(SummarizerData), Raises("LLMError", <<>>)}
      [] prompt = "category" ->
           {Returns([category |-> "Memory"]), Returns(<<>>),
            Raises("LLMError", <<>>)}
      [] prompt = "rca" ->
           {Returns([root_cause |-> "driver resource saturation"]),
            Returns([root_cause |-> "driver resource saturation",
                     rca_category |-> "Resource"]),
            Raises("LLMError", <<>>)}
      [] prompt = "solution" ->
           {Returns([solution |-> "increase driver memory"]),
            Raises("LLMError", <<>>)}

Prompts == {"summarizer", "category", "rca", "solution"}

Envs ==
    [iomete : LogCalls("iomete logs"),
     splunk : LogCalls("splunk logs"),
     detect : DetectCalls,
     lineage : LineageCalls,
     storage : {Returns(<<"doc">>), Raises("StorageError", <<>>)},
     severity : {Returns("high"), Raises("AgentError", "")},
     substrate : {Returns(TRUE), Raises("RuntimeError", FALSE)},
     llm : {f \in [Prompts -> UNION {LLMCalls(p) : p \in Prompts}] :
               \A p \in Prompts : f[p] \in LLMCalls(p)}]

\* The context built by the retrieval collaborator (opaque content).
build_context(logs, knowledge) == <<"matches">>

\* ------------------------------------------------------------------------
\* Agents (agents/*.py).  X_raised is the exception that leaves the try
\* block of X.run (NoError when the block completes), X_run the partial
\* update X.run returns.
\* ------------------------------------------------------------------------
LogFetcherAgent_raised(state, e) ==
    IF ~({"job_id", "run_id"} \subseteq DOMAIN state) THEN "KeyError"
    ELSE IF ~e.iomete.ok THEN e.iomete.err
    ELSE IF e.iomete.val = "" /\ ~e.splunk.ok THEN e.splunk.err
    ELSE NoError

LogFetcherAgent_run(state, e) ==
    LET raised == LogFetcherAgent_raised(state, e)
        first == e.iomete.val
        logs == IF first = "" THEN e.splunk.val ELSE first
        source == IF first = "" THEN "splunk" ELSE "iomete"
        log_source == IF logs # "" THEN source ELSE "none"
        result == AgentResult("success",
                              [logs_found |-> logs # "", source |-> log_source],
                              10, <<>>)
    IN  IF raised # NoError
        THEN _attach_error("log_fetcher", state,
                 _wrap_exception("log_fetcher", "failed to fetch logs", raised))
        ELSE _append_history("log_fetcher", state, result,
                 [logs |-> logs, log_source |-> log_source])

\* The log backends LogFetcherAgent.run consults, in order.
LogFetcherAgent_calls(state, e) ==
    IF ~({"job_id", "run_id"} \subseteq DOMAIN state) THEN <<>>
    ELSE IF ~e.iomete.ok \/ e.iomete.val # "" THEN <<"iomete">>
    ELSE <<"iomete", "splunk">>

DriverFailureAgent_raised(state, e) ==
    IF ~({"job_id", "execution_id"} \subseteq DOMAIN state) THEN "KeyError"
    ELSE IF ~e.detect.ok THEN e.detect.err
    ELSE NoError

DriverFailureAgent_run(state, e) ==
    LET raised == DriverFailureAgent_raised(state, e)
        failure == e.detect.val
        result == AgentResult("success", [driver_failure |-> failure], 10, <<>>)
        updated == clone_with_updates(state, [driver_failure |-> failure])
    IN  IF raised # NoError
        THEN _attach_error("driver_failure", state,
                 _wrap_exception("driver_failure",
                                 "failed to detect driver failure", raised))
        ELSE _append_history("driver_failure", updated, result, <<>>)

LineageAgent_raised(state, e) ==
    IF "job_name" \notin DOMAIN state THEN "KeyError"
    ELSE IF ~e.lineage.ok THEN e.lineage.err
    ELSE NoError

LineageAgent_run(state, e) ==
    LET raised == LineageAgent_raised(state, e)
        lineage == e.lineage.val
        result == AgentResult("success", [lineage_found |-> lineage # <<>>],
                              10, <<>>)
    IN  IF raised # NoError
        THEN _attach_error("lineage", state,
                 _wrap_exception("lineage", "failed to fetch lineage", raised))
        ELSE _append_history("lineage", state, result, [lineage |-> lineage])

SummarizerAgent_raised(state, e) ==
    IF ~e.storage.ok THEN e.storage.err
    ELSE IF "logs" \notin DOMAIN state THEN "KeyError"
    ELSE IF ~e.llm["summarizer"].ok THEN e.llm["summarizer"].err
    ELSE NoError

SummarizerAgent_run(state, e) ==
    LET raised == SummarizerAgent_raised(state, e)
        context == build_context(state["logs"], e.storage.val)
        data == e.llm["summarizer"].val
        result == AgentResult("success", data, 9, [prompt_key |-> "summarizer"])
        updated == clone_with_updates(state,
                       [summary |-> Get(data, "summary", ""),
                        error_type |-> Get(data, "error_type", ""),
                        error_message |-> Get(data, "error_message", ""),
                        retrieval_context |-> context])
    IN  IF raised # NoError
        THEN _attach_error("summarizer", state,
                 _wrap_exception("summarizer", "failed to summarize logs", raised))
        ELSE _append_history("summarizer", updated, result, <<>>)

CategoryAgent_raised(state, e) ==
    IF ~({"summary", "root_cause"} \subseteq DOMAIN state) THEN "KeyError"
    ELSE IF ~e.llm["category"].ok THEN e.llm["category"].err
    ELSE NoError

CategoryAgent_run(state, e) ==
    LET raised == CategoryAgent_raised(state, e)
        data == e.llm["category"].val
        result == AgentResult("success", data, 9, [prompt_key |-> "category"])
    IN  IF raised # NoError
        THEN _attach_error("category", state,
                 _wrap_exception("category", "failed to classify category", raised))
        ELSE _append_history("category", state, result,
                 [category |-> Get(data, "category", "")])

\* RCAAgent.run builds a context only when none was stored and logs exist.
RCAAgent_needs_context(state) ==
    Get(state, "retrieval_context", <<>>) = <<>> /\ Get(state, "logs", "") # ""

RCAAgent_raised(state, e) ==
    IF RCAAgent_needs_context(state) /\ ~e.storage.ok THEN e.storage.err
    ELSE IF ~e.llm["rca"].ok THEN e.llm["rca"].err
    ELSE NoError

RCAAgent_run(state, e) ==
    LET raised == RCAAgent_raised(state, e)
        context == IF RCAAgent_needs_context(state)
                   THEN build_context(state["logs"], e.storage.val)
                   ELSE Get(state, "retrieval_context", <<>>)
        data == e.llm["rca"].val
        result == AgentResult("success", data, 9, [prompt_key |-> "rca"])
    IN  IF raised # NoError
        THEN _attach_error("rca", state,
                 _wrap_exception("rca", "failed to infer root cause", raised))
        ELSE _append_history("rca", state, result,
                 [root_cause |-> Get(data, "root_cause", ""),
                  category |-> Get(data, "rca_category",
                                   Get(state, "category", "")),
                  retrieval_context |-> context])

SolutionAgent_raised(state, e) ==
    IF ~e.storage.ok THEN e.storage.err
    ELSE IF ~e.llm["solution"].ok THEN e.llm["solution"].err
    ELSE IF ~e.severity.ok THEN e.severity.err
    ELSE NoError

SolutionAgent_run(state, e) ==
    LET raised == SolutionAgent_raised(state, e)
        data == e.llm["solution"].val
        result == AgentResult("success", data, 9,
                              [prompt_key |-> "solution",
                               severity_case_count |-> 7])
    IN  IF raised # NoError
        THEN _attach_error("solution", state,
                 _wrap_exception("solution", "failed to generate solution", raised))
        ELSE _append_history("solution", state, result,
                 [solution |-> Get(data, "solution", ""),
                  severity |-> e.severity.val,
                  resolution |-> Get(data, "resolution", <<>>),
                  solution_source |-> Get(data, "source", "knowledge_base")])

\* graph.add_node: the callable registered under each node name.
NodeRaised(node, state, e) ==
    CASE node = "log_fetcher" -> LogFetcherAgent_raised(state, e)
      [] node = "driver_failure" -> DriverFailureAgent_raised(state, e)
      [] node = "summarizer" -> SummarizerAgent_raised(state, e)
      [] node = "lineage" -> LineageAgent_raised(state, e)
      [] node = "category" -> CategoryAgent_raised(state, e)
      [] node = "rca" -> RCAAgent_raised(state, e)
      [] node = "solution" -> SolutionAgent_raised(state, e)

NodeRun(node, state, e) ==
    CASE node = "log_fetcher" -> LogFetcherAgent_run(state, e)
      [] node = "driver_failure" -> DriverFailureAgent_run(state, e)
      [] node = "summarizer" -> SummarizerAgent_run(state, e)
      [] node = "lineage" -> LineageAgent_run(state, e)
      [] node = "category" -> CategoryAgent_run(state, e)
      [] node = "rca" -> RCAAgent_run(state, e)
      [] node = "solution" -> SolutionAgent_run(state, e)

\* ------------------------------------------------------------------------
\* Routing rules and topology (graph/rca_graph.py)
\* ------------------------------------------------------------------------
_route_after_log_fetcher_inverted(state) ==
    IF state["logs"] = "" THEN "summarizer" ELSE "driver_failure"

_route_after_log_fetcher(state) ==
    IF state["logs"] # "" THEN "summarizer" ELSE "driver_failure"

_route_after_driver_failure_or(state) ==
    IF state["logs"] = "" \/ state["driver_failure"] THEN "rca" ELSE "lineage"

_route_after_driver_failure(state) ==
    IF state["logs"] = "" /\ state["driver_failure"] THEN "rca" ELSE "lineage"

_route_after_lineage_always_category(state) == "category"

_route_after_lineage(state) ==
    IF state["category"] # "" THEN "rca" ELSE "category"

NextNode_category_to_solution(node, state) ==
    CASE node = "log_fetcher" -> _route_after_log_fetcher(state)
      [] node = "summarizer" -> "lineage"
      [] node = "driver_failure" -> _route_after_driver_failure(state)
      [] node = "lineage" -> _route_after_lineage(state)
      [] node = "category" -> "solution"
      [] node = "rca" -> "solution"
      [] node = "solution" -> END

NextNode_abort_on_failure(node, state) ==
    IF Get(state, "status", "running") = "failed" THEN END
    ELSE CASE node = "log_fetcher" -> _route_after_log_fetcher(state)
           [] node = "summarizer" -> "lineage"
           [] node = "driver_failure" -> _route_after_driver_failure(state)
           [] node = "lineage" -> _route_after_lineage(state)
           [] node = "category" -> "rca"
           [] node = "rca" -> "solution"
           [] node = "solution" -> END

\* The edges declared by RCAGraphBuilder.build: the node that follows
\* `node` once its update has been merged into `state`.
NextNode(node, state) ==
    CASE node = "log_fetcher" -> _route_after_log_fetcher(state)
      [] node = "summarizer" -> "lineage"
      [] node = "driver_failure" -> _route_after_driver_failure(state)
      [] node = "lineage" -> _route_after_lineage(state)
      [] node = "category" -> "rca"
      [] node = "rca" -> "solution"
      [] node = "solution" -> END

\* ------------------------------------------------------------------------
\* Engine (orchestrator/engine.py, system/engine.py)
\* ------------------------------------------------------------------------
\* The state literal RCAEngine.run builds before validating it.
EngineInitialState(job_id, job_name, run_id, start_time) ==
    [job_id |-> job_id, job_name |-> job_name, run_id |-> run_id,
     start_time |-> start_time, logs |-> "", summary |-> "",
     root_cause |-> "", solution |-> "", category |-> "", lineage |-> <<>>,
     end_time |-> "", status |-> "running", errors |-> <<>>,
     decision_path |-> <<>>, agent_history |-> <<>>,
     confidence_scores |-> <<>>, driver_failure |-> FALSE,
     retrieval_context |-> <<>>, log_source |-> "none", error_type |-> "",
     error_message |-> "", severity |-> "", resolution |-> <<>>,
     solution_source |-> ""]

\* "Final state updates": completed = dict(final_state) with end_time and
\* status set.
Finalize(final_state, now) ==
    DictUpdate(final_state,
        [end_time |-> now,
         status |-> IF Get(final_state, "errors", <<>>) = <<>>
                    THEN "completed" ELSE "failed"])

\* The except branch: failed = dict(state) of the engine's own `state`.
FailedState(engine_state, error, now) ==
    DictUpdate(engine_state,
        [end_time |-> now,
         status |-> "failed",
         errors |-> Get(engine_state, "errors", <<>>)
                    \o <<ErrorEntry("GraphError", <<error>>, "engine")>>])

\* ------------------------------------------------------------------------
\* State of the model
\* ------------------------------------------------------------------------
VARIABLES
    env,          \* outcomes of the collaborator calls of this run
    entry,        \* "engine": RCAEngine.run; "graph": the compiled graph
                  \* invoked on a state built by RCAStateFactory
    pc,           \* "created", a node name, END or "done"
    engine_state, \* the local `state` of RCAEngine.run (<<>> outside it)
    state,        \* the state the graph walk holds
    outcome,      \* "pending", "returned" or the exception raised
    returned,     \* the value handed to the caller (<<>> when none)
    invoked,      \* nodes invoked, in order
    succeeded,    \* nodes whose run completed its try block, in order
    prev,         \* the state before the latest merge
    update,       \* the latest partial update
    lastNode,     \* the node (or operation) that produced it
    lastError,    \* the exception its collaborator raised, or NoError
    routed        \* the latest routing decision [rule, target]

\* State of the batch mode of Main.run and of the discovery it starts
\* (main.py, clients/iomete_client.py), and of an engine used repeatedly.
VARIABLES
    earlier,      \* the runs this engine finished before the current one:
                  \* [state, returned, outcome] of each, in order
    response,     \* what the IOMETE API answers during this batch
    jobs,         \* the jobs list read from the discovery payload
    semaphore,    \* the value of asyncio.Semaphore(100)
    acquired,     \* per-job tasks that entered `async with semaphore`
    released,     \* per-job tasks that left it
    failed_jobs_with_runs, \* the (job, run) pairs discovery returned
    cursor,       \* pairs the dispatcher loop has handled
    results,      \* the results list of the dispatcher
    counters,     \* the four counters of the dispatcher
    engine_calls, \* invocations of RCAEngine.run by the dispatcher
    report        \* output_data (<<>> while none is produced)

batchVars == <<response, jobs, semaphore, acquired, released,
               failed_jobs_with_runs, cursor, results, counters,
               engine_calls, report>>

\* The counters before the dispatcher loop.
NoCounts ==
    [logs_fetched_from_iomete |-> 0, logs_fetched_from_splunk |-> 0,
     jobs_failed_due_to_driver_issues |-> 0,
     jobs_without_logs_in_sources |-> 0]

vars == <<env, entry, pc, engine_state, state, outcome, returned, invoked,
          succeeded, prev, update, lastNode, lastError, routed, earlier,
          batchVars>>

\* No batch is running.
BatchIdle ==
    /\ response = <<>>
    /\ jobs = <<>>
    /\ semaphore = 0
    /\ acquired = 0
    /\ released = 0
    /\ failed_jobs_with_runs = <<>>
    /\ cursor = 0
    /\ results = <<>>
    /\ counters = NoCounts
    /\ engine_calls = 0
    /\ report = <<>>

NoRoute == [rule |-> "none", target |-> "none"]

Init ==
    /\ env \in Envs
    /\ entry = "none"
    /\ pc = "created"
    /\ engine_state = <<>>
    /\ state = <<>>
    /\ outcome = "pending"
    /\ returned = <<>>
    /\ invoked = <<>>
    /\ succeeded = <<>>
    /\ prev = <<>>
    /\ update = <<>>
    /\ lastNode = "none"
    /\ lastError = NoError
    /\ routed = NoRoute
    /\ earlier = <<>>
    /\ BatchIdle

\* RCAEngine.run up to the start of the graph walk: build the state,
\* validate it (outside the try), then build the graph.
EngineRun(job_id, run_id, now) ==
    LET initial == EngineInitialState(job_id, JobName(job_id), run_id, now)
    IN  /\ pc = "created"
        /\ entry' = "engine"
        /\ engine_state' = initial
        /\ IF ~validate(initial)
           THEN /\ state' = initial
                /\ outcome' = "ValueError"
                /\ pc' = "done"
           ELSE IF ~env.substrate.ok
           THEN LET failed == FailedState(initial, env.substrate.err, now)
                IN  /\ state' = failed
                    /\ outcome' = IF validate(failed) THEN "GraphError"
                                  ELSE "ValueError"
                    /\ pc' = "done"
           ELSE /\ state' = GraphInput(initial)
                /\ outcome' = "pending"
                /\ pc' = "log_fetcher"
        /\ UNCHANGED <<env, returned, invoked, succeeded, prev, update,
                       lastNode, lastError, routed>>
        /\ UNCHANGED <<earlier, batchVars>>

\* graph.invoke(RCAStateFactory.create_initial(...)): the compiled graph
\* driven directly, without the engine.
GraphInvoke(job_id, execution_id, now) ==
    /\ pc = "created"
    /\ entry' = "graph"
    /\ state' = GraphInput(create_initial(job_id, JobName(job_id),
                                          execution_id, now))
    /\ pc' = "log_fetcher"
    /\ UNCHANGED <<env, engine_state, outcome, returned, invoked, succeeded,
                   prev, update, lastNode, lastError, routed>>
    /\ UNCHANGED <<earlier, batchVars>>

\* One step of the walk: run the current node, merge its partial update,
\* evaluate the edge leaving the node.
NodeStep ==
    /\ pc \in Nodes
    /\ LET raised == NodeRaised(pc, state, env)
           partial == NodeRun(pc, state, env)
           merged == GraphMerge(state, partial)
       IN  /\ prev' = state
           /\ update' = partial
           /\ state' = merged
           /\ lastNode' = pc
           /\ lastError' = raised
           /\ invoked' = Append(invoked, pc)
           /\ succeeded' = IF raised = NoError THEN Append(succeeded, pc)
                           ELSE succeeded
           /\ pc' = NextNode(pc, merged)
    /\ UNCHANGED <<env, entry, engine_state, outcome, returned, routed>>
    /\ UNCHANGED <<earlier, batchVars>>

\* The walk reached END: the graph returns its state; the engine finalizes
\* it, validates it and returns it, or takes the except branch.
GraphEnd(now) ==
    /\ pc = END
    /\ pc' = "done"
    /\ IF entry = "graph"
       THEN /\ returned' = state
            /\ outcome' = "returned"
            /\ UNCHANGED state
       ELSE LET completed == Finalize(state, now)
                failed == FailedState(engine_state, "ValueError", now)
            IN  IF validate(completed)
                THEN /\ state' = completed
                     /\ returned' = completed
                     /\ outcome' = "returned"
                ELSE /\ state' = failed
                     /\ returned' = <<>>
                     /\ outcome' = IF validate(failed) THEN "GraphError"
                                   ELSE "ValueError"
    /\ UNCHANGED <<env, entry, engine_state, invoked, succeeded, prev, update,
                   lastNode, lastError, routed>>
    /\ UNCHANGED <<earlier, batchVars>>

Next ==
    \/ \E j \in JobIds, r \in RunIds, t \in Clock : EngineRun(j, r, t)
    \/ \E j \in JobIds, r \in RunIds, t \in Clock : GraphInvoke(j, r, t)
    \/ NodeStep
    \/ \E t \in Clock : GraphEnd(t)

Spec == Init /\ [][Next]_vars

\* A started walk is driven to its end by the call that started it
\* (graph.invoke / graph.ainvoke runs the nodes one after the other).
\* The collaborators of the walks checked for progress: every collaborator
\* of a node either answers or raises.
LiveEnvs ==
    {e \in [iomete : LogCalls("iomete logs"),
            splunk : {Returns("")},
            detect : DetectCalls,
            lineage : {Returns(<<"table_a">>), Raises("StorageError", <<>>)},
            storage : {Returns(<<"doc">>), Raises("StorageError", <<>>)},
            severity : {Returns("high")},
            substrate : {Returns(TRUE)},
            llm : {f \in [Prompts -> UNION {LLMCalls(p) : p \in Prompts}] :
                      \A p \in Prompts : f[p] \in LLMCalls(p)}] :
        \A p \in Prompts : e.llm[p].ok => e.llm[p].val # <<>>}

InitLive ==
    /\ env \in LiveEnvs
    /\ entry = "none"
    /\ pc = "created"
    /\ engine_state = <<>>
    /\ state = <<>>
    /\ outcome = "pending"
    /\ returned = <<>>
    /\ invoked = <<>>
    /\ succeeded = <<>>
    /\ prev = <<>>
    /\ update = <<>>
    /\ lastNode = "none"
    /\ lastError = NoError
    /\ routed = NoRoute
    /\ earlier = <<>>
    /\ BatchIdle

SpecLive ==
    /\ InitLive
    /\ [][Next]_vars
    /\ WF_vars(NodeStep)
    /\ WF_vars(\E t \in Clock : GraphEnd(t))

\* ------------------------------------------------------------------------
\* Routing rules as pure functions: the inputs are drawn from the states a
\* caller can hand to a rule, one action evaluates each rule.
\* ------------------------------------------------------------------------
LogTexts == {"", "x", "some logs"}

Categories == {"", "Memory", "Resource"}

RouteInputs ==
    {DictUpdate(create_initial(j, JobName(j), "e", "t"),
                [logs |-> l, driver_failure |-> d, category |-> c]) :
        j \in JobIds, l \in LogTexts, d \in BOOLEAN, c \in Categories}

\* The collaborators are not called by the pure functions.
IdleEnv ==
    [iomete |-> Returns(""), splunk |-> Returns(""), detect |-> Returns(FALSE),
     lineage |-> Returns(<<>>), storage |-> Returns(<<"doc">>),
     severity |-> Returns("high"), substrate |-> Returns(TRUE),
     llm |-> [p \in Prompts |-> Raises("LLMError", <<>>)]]

InitRoute ==
    /\ state \in RouteInputs
    /\ env = IdleEnv
    /\ entry = "none"
    /\ pc = "route"
    /\ engine_state = <<>>
    /\ outcome = "pending"
    /\ returned = <<>>
    /\ invoked = <<>>
    /\ succeeded = <<>>
    /\ prev = <<>>
    /\ update = <<>>
    /\ lastNode = "none"
    /\ lastError = NoError
    /\ routed = NoRoute
    /\ earlier = <<>>
    /\ BatchIdle

RuleA ==
    /\ pc = "route"
    /\ routed' = [rule |-> "A", target |-> _route_after_log_fetcher(state)]
    /\ UNCHANGED <<env, entry, pc, engine_state, state, outcome, returned,
                   invoked, succeeded, prev, update, lastNode, lastError>>
    /\ UNCHANGED <<earlier, batchVars>>

RuleB ==
    /\ pc = "route"
    /\ routed' = [rule |-> "B", target |-> _route_after_driver_failure(state)]
    /\ UNCHANGED <<env, entry, pc, engine_state, state, outcome, returned,
                   invoked, succeeded, prev, update, lastNode, lastError>>
    /\ UNCHANGED <<earlier, batchVars>>

RuleC ==
    /\ pc = "route"
    /\ routed' = [rule |-> "C", target |-> _route_after_lineage(state)]
    /\ UNCHANGED <<env, entry, pc, engine_state, state, outcome, returned,
                   invoked, succeeded, prev, update, lastNode, lastError>>
    /\ UNCHANGED <<earlier, batchVars>>

NextRoute == RuleA \/ RuleB \/ RuleC

SpecRoute == InitRoute /\ [][NextRoute]_vars

\* ------------------------------------------------------------------------
\* The merge operation as a pure function: a state and a partial update are
\* drawn from bounded sets and merged, repeatedly.
\* ------------------------------------------------------------------------
RECURSIVE SeqsUpTo(_, _)
SeqsUpTo(S, n) ==
    IF n = 0 THEN {<<>>}
    ELSE LET shorter == SeqsUpTo(S, n - 1)
         IN  shorter \cup {Append(q, x) : q \in shorter, x \in S}

ErrorEntries == {ErrorEntry("AgentError", <<"rca">>, "rca")}

PathEntries == {"log_fetcher", "rca"}

HistoryEntries == {[agent |-> "rca",
                    result |-> AgentResult("success", <<>>, 9, <<>>)]}

MergeInputs ==
    {DictUpdate(create_initial("j1", "n1", "e", "t"),
                [errors |-> er, decision_path |-> dp, agent_history |-> ah]) :
        er \in SeqsUpTo(ErrorEntries, MaxAcc),
        dp \in SeqsUpTo(PathEntries, MaxAcc),
        ah \in SeqsUpTo(HistoryEntries, MaxAcc)}

\* Partial updates: any subset of the accumulator keys, each with the one
\* entry a node returns for it; an update that carries errors also carries
\* status, as _attach_error builds it.
PartialUpdates ==
    {[k \in K \cup (IF "errors" \in K THEN {"status"} ELSE {}) |-> full[k]] :
        K \in SUBSET {"errors", "decision_path", "agent_history"},
        full \in [errors : {<<x>> : x \in ErrorEntries},
                  decision_path : {<<x>> : x \in PathEntries},
                  agent_history : {<<x>> : x \in HistoryEntries},
                  status : {"failed"}]}

InitMerge ==
    /\ state \in MergeInputs
    /\ env = IdleEnv
    /\ entry = "none"
    /\ pc = "merge"
    /\ engine_state = <<>>
    /\ outcome = "pending"
    /\ returned = <<>>
    /\ invoked = <<>>
    /\ succeeded = <<>>
    /\ prev = <<>>
    /\ update = <<>>
    /\ lastNode = "none"
    /\ lastError = NoError
    /\ routed = NoRoute
    /\ earlier = <<>>
    /\ BatchIdle

CloneStep(u) ==
    /\ pc = "merge"
    /\ prev' = clone_with_updates_input(state, u)
    /\ update' = u
    /\ state' = clone_with_updates(state, u)
    /\ lastNode' = "clone_with_updates"
    /\ UNCHANGED <<env, entry, pc, engine_state, outcome, returned, invoked,
                   succeeded, lastError, routed>>
    /\ UNCHANGED <<earlier, batchVars>>

GraphMergeStep(u) ==
    /\ pc = "merge"
    /\ prev' = state
    /\ update' = u
    /\ state' = GraphMerge(state, u)
    /\ lastNode' = "graph_merge"
    /\ UNCHANGED <<env, entry, pc, engine_state, outcome, returned, invoked,
                   succeeded, lastError, routed>>
    /\ UNCHANGED <<earlier, batchVars>>

NextMerge ==
    \/ \E u \in PartialUpdates : CloneStep(u)
    \/ \E u \in PartialUpdates : GraphMergeStep(u)

SpecMerge == InitMerge /\ [][NextMerge]_vars

\* ------------------------------------------------------------------------
\* Batch discovery (clients/iomete_client.py): the per-job task as a pure
\* function of what the API answers for the job.
\*
\* A job dict is [id, name, history]: id is "" when the payload carries
\* neither "id" nor "job_id"; history is what the runs endpoint answers for
\* the job: kind "ok" (status 200), "non200" or "exception", and the runs of
\* the payload.  A run dict is [id, terminationTime, driverStatus], with ""
\* for a missing id or terminationTime.
\* ------------------------------------------------------------------------
\* Longest run history drawn as an input of the run selection.
MaxRuns == 3

None == <<>>

FailedJob(job_id, job_name) == [job_id |-> job_id, job_name |-> job_name]

FailedRun(run_id) == [run_id |-> run_id]

TimeStrings == {"", "n/a", "T09", "T10", "T11"}

DriverStatuses == {"FAILED", "ABORTED", "RUNNING"}

\* datetime.fromisoformat(term_time_str.replace("Z", "+00:00")): raises on
\* "n/a", otherwise yields the instant (here its hour).
Parseable(term_time_str) == term_time_str \in {"T09", "T10", "T11"}

fromisoformat(term_time_str) ==
    CASE term_time_str = "T09" -> 9
      [] term_time_str = "T10" -> 10
      [] term_time_str = "T11" -> 11

\* The loop filling runs_with_time: runs without terminationTime and runs
\* whose terminationTime does not parse are skipped.
runs_with_time(runs) ==
    SelectSeq(runs, LAMBDA run : run.terminationTime # ""
                                 /\ Parseable(run.terminationTime))

\* runs_with_time.sort(key=dt, reverse=True)[0]: the sort is stable, so the
\* first of the runs with the greatest instant.
latest_run(rwt) ==
    LET dt(i) == fromisoformat(rwt[i].terminationTime)
        first == CHOOSE i \in 1..Len(rwt) :
                     /\ \A k \in 1..Len(rwt) : dt(k) <= dt(i)
                     /\ \A k \in 1..(i - 1) : dt(k) < dt(i)
    IN  rwt[first]

_process_single_job_first_run(job) ==
    IF job.id = "" THEN None
    ELSE IF job.history.kind \in {"non200", "exception"} THEN None
    ELSE IF job.history.kind = "malformed" THEN <<"AttributeError">>
    ELSE IF job.history.runs = <<>> THEN None
    ELSE LET latest == job.history.runs[1]
         IN  IF latest.driverStatus \in {"FAILED", "ABORTED"}
                /\ latest.id # ""
             THEN <<FailedJob(job.id, job.name), FailedRun(latest.id)>>
             ELSE None

_process_single_job(job) ==
    IF job.id = "" THEN None
    ELSE IF job.history.kind \in {"non200", "exception"} THEN None
    ELSE IF job.history.kind = "malformed" THEN <<"AttributeError">>
    ELSE IF job.history.runs = <<>> THEN None
    ELSE LET rwt == runs_with_time(job.history.runs)
         IN  IF rwt = <<>> THEN None
             ELSE LET latest == latest_run(rwt)
                  IN  IF latest.driverStatus \in {"FAILED", "ABORTED"}
                         /\ latest.id # ""
                      THEN <<FailedJob(job.id, job.name),
                             FailedRun(latest.id)>>
                      ELSE None

\* results of asyncio.gather, in the order of the jobs, filtered to the
\* 2-tuples.
valid_results(job_list) ==
    SelectSeq([i \in 1..Len(job_list) |-> _process_single_job(job_list[i])],
              LAMBDA res : Len(res) = 2)

\* ------------------------------------------------------------------------
\* The run selection as a pure function: one job whose run history is drawn
\* from the bounded histories, one action selects.
\* ------------------------------------------------------------------------
RunIdAt(i) == "r" \o ToString(i)

\* The history of n runs with the given termination times and statuses.
RunHistory(n, ts, ds) ==
    [i \in 1..n |-> [id |-> RunIdAt(i), terminationTime |-> ts[i],
                     driverStatus |-> ds[i]]]

Job(id, kind, runs) ==
    [id |-> id, name |-> JobName(id),
     history |-> [kind |-> kind, runs |-> runs]]

InitSelect ==
    /\ \E n \in 0..MaxRuns :
          \E ts \in [1..n -> TimeStrings], ds \in [1..n -> DriverStatuses] :
              jobs = <<Job("j1", "ok", RunHistory(n, ts, ds))>>
    /\ env = IdleEnv
    /\ entry = "none"
    /\ pc = "select"
    /\ engine_state = <<>>
    /\ state = <<>>
    /\ outcome = "pending"
    /\ returned = <<>>
    /\ invoked = <<>>
    /\ succeeded = <<>>
    /\ prev = <<>>
    /\ update = <<>>
    /\ lastNode = "none"
    /\ lastError = NoError
    /\ routed = NoRoute
    /\ earlier = <<>>
    /\ response = <<>>
    /\ semaphore = 0
    /\ acquired = 0
    /\ released = 0
    /\ failed_jobs_with_runs = <<>>
    /\ cursor = 0
    /\ results = <<>>
    /\ counters = NoCounts
    /\ engine_calls = 0
    /\ report = <<>>

SelectRun ==
    /\ pc = "select"
    /\ failed_jobs_with_runs' = valid_results(jobs)
    /\ pc' = "selected"
    /\ UNCHANGED <<env, entry, engine_state, state, outcome, returned,
                   invoked, succeeded, prev, update, lastNode, lastError,
                   routed, earlier, response, jobs, semaphore, acquired,
                   released, cursor, results, counters, engine_calls,
                   report>>

NextSelect == SelectRun

SpecSelect == InitSelect /\ [][NextSelect]_vars

\* ------------------------------------------------------------------------
\* Batch mode of Main.run (main.py) over the discovery of
\* IometeClient.fetch_failed_jobs_with_runs_async.
\*
\* The per-job tasks are counted, not named: what a task returns depends on
\* its job alone (_process_single_job) and asyncio.gather orders the results
\* by job, so the tasks differ only in when they hold the semaphore.
\* ------------------------------------------------------------------------
\* asyncio.Semaphore(100)
SemaphoreWidth == 100

\* Longest jobs list drawn as a discovery payload.
MaxJobs == 2

\* Jobs beyond the width of the semaphore in a fan-out.
MaxOver == 2

\* resp.raise_for_status() on the jobs endpoint, with the fallback endpoint
\* tried after a 404.
jobs_fetch_raises_ignored(resp) == FALSE

jobs_fetch_raises(resp) ==
    IF resp.status = 404 THEN resp.fallback >= 400 ELSE resp.status >= 400

\* Leaving `async with semaphore`, by a return or by an exception, gives
\* the slot back.
release_leak(value) == value

release(value) == value + 1

\* Semaphore.locked(): a task entering `async with semaphore` waits.
locked_never(value) == FALSE

locked(value) == value = 0

\* graph.ainvoke(state): the walk from the entry node to END.
RECURSIVE ainvoke(_, _, _)
ainvoke(node, s, e) ==
    IF node = END THEN s
    ELSE LET merged == GraphMerge(s, NodeRun(node, s, e))
         IN  ainvoke(NextNode(node, merged), merged, e)

\* RCAEngine.run as its caller sees it: the exception it raises (NoError
\* when it returns) and the state it returns; held is the last state dict
\* the engine built (state, completed or failed).
RCAEngine_run(job_id, job_name, run_id, now, e) ==
    LET initial == EngineInitialState(job_id, job_name, run_id, now)
    IN  IF ~validate(initial)
        THEN [raised |-> "ValueError", state |-> <<>>, held |-> initial]
        ELSE IF ~e.substrate.ok
        THEN [raised |-> IF validate(FailedState(initial, e.substrate.err,
                                                 now))
                         THEN "GraphError" ELSE "ValueError",
              state |-> <<>>,
              held |-> FailedState(initial, e.substrate.err, now)]
        ELSE LET final == ainvoke("log_fetcher", GraphInput(initial), e)
                 completed == Finalize(final, now)
             IN  IF validate(completed)
                 THEN [raised |-> NoError, state |-> completed,
                       held |-> completed]
                 ELSE [raised |-> IF validate(FailedState(initial,
                                                 "ValueError", now))
                                  THEN "GraphError" ELSE "ValueError",
                       state |-> <<>>,
                       held |-> FailedState(initial, "ValueError", now)]

\* The counters after a run that returned.
count_state(c, st) ==
    [logs_fetched_from_iomete |->
         c.logs_fetched_from_iomete
             + (IF st.log_source = "iomete" THEN 1 ELSE 0),
     logs_fetched_from_splunk |->
         c.logs_fetched_from_splunk
             + (IF st.log_source = "splunk" THEN 1 ELSE 0),
     jobs_without_logs_in_sources |->
         c.jobs_without_logs_in_sources
             + (IF st.log_source \notin {"iomete", "splunk"} THEN 1 ELSE 0),
     jobs_failed_due_to_driver_issues |->
         c.jobs_failed_due_to_driver_issues
             + (IF st.driver_failure THEN 1 ELSE 0)]

\* The counters after the loop body for a pair: an exception of
\* RCAEngine.run leaves the try block before any counter is touched.
count_result_also_failed(c, run) ==
    IF run.raised # NoError
    THEN [c EXCEPT !.jobs_without_logs_in_sources = @ + 1]
    ELSE count_state(c, run.state)

count_result(c, run) ==
    IF run.raised # NoError THEN c ELSE count_state(c, run.state)

\* The results entry of a pair whose run returned st.
processed_entry(pair, st) ==
    [job_id |-> pair[1].job_id, run_id |-> pair[2].run_id,
     job_name |-> pair[1].job_name, status |-> "processed",
     RCA_Solution |->
         <<[error_type |-> st.error_type,
            error_message |-> st.error_message,
            root_cause |-> st.root_cause, severity |-> st.severity,
            resolution |-> st.resolution,
            source |-> IF st.solution_source = "" THEN "knowledge_base"
                       ELSE st.solution_source,
            rca_category |-> st.category]>>]

\* The results entry the except branch of the loop appends.
failed_entry(pair) ==
    [job_id |-> pair[1].job_id, run_id |-> pair[2].run_id,
     job_name |-> pair[1].job_name, status |-> "failed",
     RCA_Solution |-> <<>>]

\* The body of the dispatcher loop after `await runtime.engine.run(...)`.
append_result_reraise(res, pair, run) ==
    IF run.raised # NoError THEN res
    ELSE Append(res, processed_entry(pair, run.state))

append_result(res, pair, run) ==
    IF run.raised # NoError THEN Append(res, failed_entry(pair))
    ELSE Append(res, processed_entry(pair, run.state))

output_data_off_by_one(pairs, res, c) ==
    ("Total failed jobs" :> Len(pairs))
    @@ ("Number of jobs processed" :> Len(res) + 1)
    @@ ("Logs fetched from IOMETE" :> c.logs_fetched_from_iomete)
    @@ ("Logs fetched from splunk" :> c.logs_fetched_from_splunk)
    @@ ("Jobs failed due to driver issues"
            :> c.jobs_failed_due_to_driver_issues)
    @@ ("Number of jobs whose logs are not available in iomete or splunk"
            :> c.jobs_without_logs_in_sources)
    @@ ("results" :> res)

output_data(pairs, res, c) ==
    ("Total failed jobs" :> Len(pairs))
    @@ ("Number of jobs processed" :> Len(res))
    @@ ("Logs fetched from IOMETE" :> c.logs_fetched_from_iomete)
    @@ ("Logs fetched from splunk" :> c.logs_fetched_from_splunk)
    @@ ("Jobs failed due to driver issues"
            :> c.jobs_failed_due_to_driver_issues)
    @@ ("Number of jobs whose logs are not available in iomete or splunk"
            :> c.jobs_without_logs_in_sources)
    @@ ("results" :> res)

\* The run histories the runs endpoint answers in a batch.
BatchHistories ==
    {[kind |-> "non200", runs |-> <<>>],
     [kind |-> "exception", runs |-> <<>>],
     [kind |-> "ok", runs |-> <<>>],
     [kind |-> "ok",
      runs |-> <<[id |-> "r1", terminationTime |-> "T10",
                  driverStatus |-> "FAILED"]>>],
     [kind |-> "ok",
      runs |-> <<[id |-> "r1", terminationTime |-> "T10",
                  driverStatus |-> "ABORTED"],
                 [id |-> "r2", terminationTime |-> "T09",
                  driverStatus |-> "FAILED"],
                 [id |-> "r3", terminationTime |-> "T11",
                  driverStatus |-> "RUNNING"]>>]}

JobDicts ==
    {Job(id, h.kind, h.runs) : id \in JobIds, h \in BatchHistories}
    \cup {Job("", "ok", <<[id |-> "r1", terminationTime |-> "T10",
                           driverStatus |-> "FAILED"]>>)}

Responses ==
    [status : {200, 404, 500}, fallback : {200, 500},
     jobs : SeqsUpTo(JobDicts, MaxJobs)]

\* How the task of the i-th job of a large payload finishes: with a pair,
\* with None (runs request refused, or failing), or with an exception
\* raised inside the semaphore block (run entries that are not objects).
FanOutKind(i) ==
    IF i % 4 = 0 THEN "malformed"
    ELSE IF i % 4 = 1 THEN "ok"
    ELSE IF i % 4 = 2 THEN "non200"
    ELSE "exception"

\* A discovery payload of n jobs.
FanOutJobs(n) ==
    [i \in 1..n |-> Job(ToString(i), FanOutKind(i),
                        <<[id |-> "r1", terminationTime |-> "T10",
                           driverStatus |-> "FAILED"]>>)]

FanOutResponses ==
    {[status |-> 200, fallback |-> 200, jobs |-> FanOutJobs(n)] :
        n \in (SemaphoreWidth - 1)..(SemaphoreWidth + MaxOver)}

\* Main.run in batch mode is about to call the discovery.
BatchStart ==
    /\ env = IdleEnv
    /\ entry = "batch"
    /\ pc = "created"
    /\ engine_state = <<>>
    /\ state = <<>>
    /\ outcome = "pending"
    /\ returned = <<>>
    /\ invoked = <<>>
    /\ succeeded = <<>>
    /\ prev = <<>>
    /\ update = <<>>
    /\ lastNode = "none"
    /\ lastError = NoError
    /\ routed = NoRoute
    /\ earlier = <<>>
    /\ jobs = <<>>
    /\ semaphore = 0
    /\ acquired = 0
    /\ released = 0
    /\ failed_jobs_with_runs = <<>>
    /\ cursor = 0
    /\ results = <<>>
    /\ counters = NoCounts
    /\ engine_calls = 0
    /\ report = <<>>

InitBatch ==
    /\ response \in Responses
    /\ BatchStart

InitFanOut ==
    /\ response \in FanOutResponses
    /\ BatchStart

engineVars == <<env, entry, engine_state, state, invoked, succeeded, prev,
                update, lastNode, lastError, routed, earlier>>

\* The jobs request of the discovery, up to the creation of the semaphore.
\* An exception of raise_for_status leaves the discovery and Main.run.
FetchJobs ==
    /\ entry = "batch"
    /\ pc = "created"
    /\ IF jobs_fetch_raises(response)
       THEN /\ outcome' = "ClientResponseError"
            /\ pc' = "done"
            /\ UNCHANGED <<jobs, semaphore>>
       ELSE /\ jobs' = response.jobs
            /\ outcome' = "pending"
            /\ IF response.jobs = <<>>
               THEN /\ pc' = "dispatch"
                    /\ UNCHANGED semaphore
               ELSE /\ pc' = "gather"
                    /\ semaphore' = SemaphoreWidth
    /\ UNCHANGED <<response, acquired, released, failed_jobs_with_runs,
                   cursor, results, counters, engine_calls, report, returned>>
    /\ UNCHANGED engineVars

\* The next per-job task enters `async with semaphore`.
TaskAcquire ==
    /\ pc = "gather"
    /\ acquired < Len(jobs)
    /\ ~locked(semaphore)
    /\ semaphore' = semaphore - 1
    /\ acquired' = acquired + 1
    /\ UNCHANGED <<response, jobs, released, failed_jobs_with_runs, cursor,
                   results, counters, engine_calls, report, pc, outcome,
                   returned>>
    /\ UNCHANGED engineVars

\* A per-job task that holds the semaphore leaves the block: it returned a
\* pair or None, or it raised.
TaskRelease ==
    /\ pc = "gather"
    /\ released < acquired
    /\ semaphore' = release(semaphore)
    /\ released' = released + 1
    /\ UNCHANGED <<response, jobs, acquired, failed_jobs_with_runs, cursor,
                   results, counters, engine_calls, report, pc, outcome,
                   returned>>
    /\ UNCHANGED engineVars

\* asyncio.gather returns: every task is done; the discovery returns the
\* valid results to Main.run.
GatherDone ==
    /\ pc = "gather"
    /\ released = Len(jobs)
    /\ failed_jobs_with_runs' = valid_results(jobs)
    /\ pc' = "dispatch"
    /\ UNCHANGED <<response, jobs, semaphore, acquired, released, cursor,
                   results, counters, engine_calls, report, outcome,
                   returned>>
    /\ UNCHANGED engineVars

\* The dispatcher loop awaits RCAEngine.run for the next pair.
RunEngine(now) ==
    /\ pc = "dispatch"
    /\ cursor < Len(failed_jobs_with_runs)
    /\ LET pair == failed_jobs_with_runs[cursor + 1]
           run == RCAEngine_run(pair[1].job_id, pair[1].job_name,
                                pair[2].run_id, now, env)
       IN  /\ outcome' = run.raised
           /\ returned' = run.state
    /\ engine_calls' = engine_calls + 1
    /\ pc' = "awaited"
    /\ UNCHANGED <<response, jobs, semaphore, acquired, released,
                   failed_jobs_with_runs, cursor, results, counters, report>>
    /\ UNCHANGED engineVars

\* The rest of the loop body for the pair: count and append, or the except
\* branch.
RecordResult ==
    /\ pc = "awaited"
    /\ LET pair == failed_jobs_with_runs[cursor + 1]
           run == [raised |-> outcome, state |-> returned,
                   held |-> returned]
       IN  /\ results' = append_result(results, pair, run)
           /\ counters' = count_result(counters, run)
    /\ cursor' = cursor + 1
    /\ outcome' = "pending"
    /\ returned' = <<>>
    /\ pc' = "dispatch"
    /\ UNCHANGED <<response, jobs, semaphore, acquired, released,
                   failed_jobs_with_runs, engine_calls, report>>
    /\ UNCHANGED engineVars

\* After the loop: output_data is built and printed.
Report ==
    /\ pc = "dispatch"
    /\ cursor = Len(failed_jobs_with_runs)
    /\ report' = output_data(failed_jobs_with_runs, results, counters)
    /\ outcome' = "returned"
    /\ pc' = "done"
    /\ UNCHANGED <<response, jobs, semaphore, acquired, released,
                   failed_jobs_with_runs, cursor, results, counters,
                   engine_calls, returned>>
    /\ UNCHANGED engineVars

NextBatch ==
    \/ FetchJobs
    \/ TaskAcquire
    \/ TaskRelease
    \/ GatherDone
    \/ \E t \in Clock : RunEngine(t)
    \/ RecordResult
    \/ Report

SpecBatch == InitBatch /\ [][NextBatch]_vars

SpecFanOut == InitFanOut /\ [][NextBatch]_vars

\* A batch whose discovery finds one job, with any run history up to
\* MaxRuns runs.
InitHistory ==
    /\ \E n \in 0..MaxRuns :
          \E ts \in [1..n -> TimeStrings], ds \in [1..n -> DriverStatuses] :
              response = [status |-> 200, fallback |-> 200,
                          jobs |-> <<Job("j1", "ok", RunHistory(n, ts, ds))>>]
    /\ BatchStart

SpecHistory == InitHistory /\ [][NextBatch]_vars

\* The event loop runs every task that is ready: a task that can enter the
\* semaphore block does, a task inside it finishes (the runs request
\* answers or fails), and gather returns once every task is done.
SpecFanOutLive ==
    /\ InitFanOut
    /\ [][NextBatch]_vars
    /\ WF_vars(TaskAcquire)
    /\ WF_vars(TaskRelease)
    /\ WF_vars(GatherDone)

\* ------------------------------------------------------------------------
\* One engine used for several runs, one after the other
\* (tests/load/test_engine_load.py): each call of RCAEngine.run is one
\* action.
\* ------------------------------------------------------------------------
\* Most runs one engine is asked for.
MaxEngineRuns == 2

\* The collaborators of the repeated runs: the log backends, the detector,
\* the lineage store and the graph substrate answer in every way, the
\* language model is down.
RepeatEnvs ==
    {e \in [iomete : LogCalls("iomete logs"),
            splunk : LogCalls("splunk logs"),
            detect : DetectCalls,
            lineage : LineageCalls,
            storage : {Returns(<<"doc">>)},
            severity : {Returns("high")},
            substrate : {Returns(TRUE), Raises("RuntimeError", FALSE)},
            llm : {IdleEnv.llm}] : TRUE}

InitRepeat ==
    /\ env \in RepeatEnvs
    /\ entry = "engine"
    /\ pc = "ready"
    /\ engine_state = <<>>
    /\ state = <<>>
    /\ outcome = "pending"
    /\ returned = <<>>
    /\ invoked = <<>>
    /\ succeeded = <<>>
    /\ prev = <<>>
    /\ update = <<>>
    /\ lastNode = "none"
    /\ lastError = NoError
    /\ routed = NoRoute
    /\ earlier = <<>>
    /\ BatchIdle

\* engine.run(job_id, job_name, run_id), from the call to the return or the
\* exception; the previous run of this engine, if any, is over.
EngineCall(job_id, run_id, now) ==
    /\ entry = "engine"
    /\ \/ /\ pc = "ready"
          /\ earlier' = earlier
       \/ /\ pc = "called"
          /\ Len(earlier) < MaxEngineRuns - 1
          /\ earlier' = Append(earlier, [state |-> engine_state,
                                         outcome |-> outcome,
                                         returned |-> returned])
    /\ LET run == RCAEngine_run(job_id, JobName(job_id), run_id, now, env)
       IN  /\ engine_state' = EngineInitialState(job_id, JobName(job_id),
                                                 run_id, now)
           /\ outcome' = IF run.raised = NoError THEN "returned"
                         ELSE run.raised
           /\ returned' = run.state
           /\ state' = run.held
    /\ pc' = "called"
    /\ UNCHANGED <<env, entry, invoked, succeeded, prev, update,
                   lastNode, lastError, routed>>
    /\ UNCHANGED batchVars

NextRepeat ==
    \E j \in JobIds, r \in RunIds, t \in Clock : EngineCall(j, r, t)

SpecRepeat == InitRepeat /\ [][NextRepeat]_vars

\* ------------------------------------------------------------------------
\* Properties
\* ------------------------------------------------------------------------
IsPrefix(p, q) == Len(p) <= Len(q) /\ SubSeq(q, 1, Len(p)) = p

EngineRunEnded == entry = "engine" /\ pc = "done"

WalkEnded == pc \in {END, "done"} /\ invoked # <<>>

C2_RunAlwaysHandsOverTerminalState ==
    EngineRunEnded =>
        /\ outcome \in {"returned", "GraphError"}
        /\ returned # <<>>
        /\ validate(returned)
        /\ returned["end_time"] # ""
        /\ returned["status"] \in {"completed", "failed"}

\* C3: merging a node's partial update appends the partial's decision_path
\* and agent_history entries to the previous sequences, so at the end of a
\* walk decision_path lists the nodes that completed successfully, in
\* execution order.
C3_AuditTrailAppended ==
    /\ lastNode \in Nodes =>
          \A k \in {"decision_path", "agent_history"} :
              state[k] = prev[k] \o Get(update, k, <<>>)
    /\ WalkEnded => state["decision_path"] = succeeded

\* C4: a merge (clone_with_updates or the graph's per-node merge) never
\* shrinks errors, decision_path or agent_history: the previous sequence
\* is a prefix of the merged one.
C4_MergeNeverShrinks ==
    lastNode \in {"clone_with_updates", "graph_merge"} =>
        \A k \in {"errors", "decision_path", "agent_history"} :
            IsPrefix(prev[k], state[k])

\* C5: Rule A sends a state with non-empty logs to the summarizer node and
\* a state with empty logs to the driver_failure node, and nowhere else.
C5_RuleA ==
    routed.rule = "A" =>
        /\ state["logs"] # "" => routed.target = "summarizer"
        /\ state["logs"] = "" => routed.target = "driver_failure"
        /\ routed.target \in {"summarizer", "driver_failure"}

C5_Witness ==
    routed.rule = "A" /\ state["logs"] = "some logs"
                      /\ routed.target = "summarizer"

\* C6: Rule B returns the rca node exactly when logs is empty and
\* driver_failure is true, and the lineage node otherwise.
C6_RuleB ==
    routed.rule = "B" =>
        /\ (routed.target = "rca")
              <=> (state["logs"] = "" /\ state["driver_failure"] = TRUE)
        /\ routed.target \in {"rca", "lineage"}

C6_Witness ==
    routed.rule = "B" /\ state["logs"] = "" /\ state["driver_failure"] = TRUE
                      /\ routed.target = "rca"

\* C7: Rule C returns the category node when category is empty and the rca
\* node when category is non-empty, and nothing else.
C7_RuleC ==
    routed.rule = "C" =>
        /\ state["category"] = "" => routed.target = "category"
        /\ state["category"] # "" => routed.target = "rca"
        /\ routed.target \in {"category", "rca"}

C7_Witness ==
    routed.rule = "C" /\ state["category"] = "Memory"
                      /\ routed.target = "rca"

\* C8: in a run where neither log backend yields logs and the driver-failure
\* detector answers true, the nodes invoked are log_fetcher, driver_failure,
\* rca, solution, and lineage, summarizer and category are absent from
\* decision_path at the end.
NoLogsAndDriverFailed ==
    /\ env.iomete.ok /\ env.iomete.val = ""
    /\ env.splunk.ok /\ env.splunk.val = ""
    /\ env.detect.ok /\ env.detect.val = TRUE

C8_DriverShortcutTaken ==
    (WalkEnded /\ NoLogsAndDriverFailed) =>
        /\ invoked = <<"log_fetcher", "driver_failure", "rca", "solution">>
        /\ \A i \in 1..Len(state["decision_path"]) :
              state["decision_path"][i] \notin {"lineage", "summarizer", "category"}

\* C9: a node whose collaborator call raised returns exactly
\* {errors: [one entry], status: "failed"}, the entry naming the node and
\* the kind of the failure (the concrete class, or the AgentError the node
\* wraps it in); the merged state gains exactly that one error entry, and
\* every field other than errors and status keeps its value.
C9_FailedNodeAddsOneError ==
    (lastNode \in Nodes /\ lastError # NoError) =>
        /\ DOMAIN update = {"errors", "status"}
        /\ update["status"] = "failed"
        /\ Len(update["errors"]) = 1
        /\ update["errors"][1].source = lastNode
        /\ update["errors"][1].code \in {lastError, "AgentError"}
        /\ state["errors"] = prev["errors"] \o update["errors"]
        /\ \A k \in (DOMAIN prev) \ {"errors", "status"} : state[k] = prev[k]

\* C10: a node that succeeded returns its own contributions with the
\* collaborator's values, and they are in the state after the merge.
Contributions(node) ==
    CASE node = "log_fetcher" -> {"logs", "log_source"}
      [] node = "driver_failure" -> {"driver_failure"}
      [] node = "lineage" -> {"lineage"}
      [] node = "summarizer" -> {"summary", "error_type", "error_message"}
      [] node = "category" -> {"category"}
      [] node = "rca" -> {"root_cause"}
      [] node = "solution" -> {"solution"}

C10_SuccessCarriesContributions ==
    (lastNode \in Nodes /\ lastError = NoError) =>
        /\ Contributions(lastNode) \subseteq DOMAIN update
        /\ \A k \in Contributions(lastNode) : state[k] = update[k]
        /\ lastNode = "driver_failure"
              => state["driver_failure"] = env.detect.val
        /\ lastNode = "lineage" => state["lineage"] = env.lineage.val
        /\ lastNode = "rca"
              => state["root_cause"] = env.llm["rca"].val.root_cause
        /\ lastNode = "solution"
              => state["solution"] = env.llm["solution"].val.solution

\* Runs of a history that have a parseable termination timestamp and driver
\* status FAILED or ABORTED.
QualifyingRuns(runs) ==
    {i \in 1..Len(runs) : /\ Parseable(runs[i].terminationTime)
                          /\ runs[i].driverStatus \in {"FAILED", "ABORTED"}}

\* C11: when the history of a job holds runs with a parseable termination
\* timestamp and driver status FAILED or ABORTED, discovery selects for the
\* job one of them with the greatest termination timestamp, whatever the
\* later runs with another status.
C11_LatestFailedRunSelected ==
    (pc = "selected") =>
        LET runs == jobs[1].history.runs
            q == QualifyingRuns(runs)
        IN  q # {} =>
                /\ Len(failed_jobs_with_runs) = 1
                /\ \E i \in q :
                      /\ failed_jobs_with_runs[1][2].run_id = runs[i].id
                      /\ \A k \in q :
                            fromisoformat(runs[k].terminationTime)
                                <= fromisoformat(runs[i].terminationTime)

InFlightTasks == acquired - released

InFlightPipelines == engine_calls - Len(results)

\* C12: in batch mode the per-job tasks inside the semaphore and the
\* pipelines awaited by the dispatcher never exceed the ceiling of 100,
\* however many jobs were discovered and however the tasks interleave; the
\* semaphore counts the free slots.
C12_ConcurrencyCeiling ==
    /\ InFlightTasks <= SemaphoreWidth
    /\ InFlightPipelines <= SemaphoreWidth
    /\ pc = "gather" => semaphore = SemaphoreWidth - InFlightTasks

\* More jobs than slots: every slot is taken and a task is waiting.
C12_Witness ==
    /\ pc = "gather"
    /\ Len(jobs) > SemaphoreWidth
    /\ InFlightTasks = SemaphoreWidth
    /\ acquired < Len(jobs)

\* RCAEngine.run raises for the pair.
EngineRaises(pair) ==
    \A t \in Clock :
        RCAEngine_run(pair[1].job_id, pair[1].job_name, pair[2].run_id, t,
                      env).raised # NoError

\* C13: every pair the dispatcher has handled has its own results entry, in
\* order, with status "failed" exactly when the engine raised for it; the
\* batch ends with the aggregate report holding all of them.
C13_FailedPairIsolated ==
    /\ Len(results) = cursor
    /\ \A i \in 1..Len(results) :
          /\ i <= Len(failed_jobs_with_runs)
          /\ results[i].job_id = failed_jobs_with_runs[i][1].job_id
          /\ results[i].run_id = failed_jobs_with_runs[i][2].run_id
          /\ results[i].status
                = IF EngineRaises(failed_jobs_with_runs[i]) THEN "failed"
                  ELSE "processed"
    /\ (pc = "done" /\ failed_jobs_with_runs # <<>>) =>
          /\ outcome = "returned"
          /\ Len(report["results"]) = Len(failed_jobs_with_runs)
          /\ report["results"] = results

\* A batch of two pairs ended with a report; the engine raised for a pair.
C13_Witness ==
    /\ pc = "done"
    /\ Len(failed_jobs_with_runs) >= 2
    /\ \E i \in 1..Len(results) : results[i].status = "failed"
    /\ report # <<>>

\* C14: a batch whose discovery found no job ends with a report whose
\* processed count is 0 and whose results list is empty, and never invokes
\* RCAEngine.run.
C14_EmptyDiscovery ==
    (pc \notin {"created"} /\ outcome # "ClientResponseError"
     /\ jobs = <<>>) =>
        /\ engine_calls = 0
        /\ pc = "done" =>
              /\ report # <<>>
              /\ report["Number of jobs processed"] = 0
              /\ report["results"] = <<>>

C14_Witness ==
    /\ entry = "batch"
    /\ pc = "done"
    /\ response.jobs = <<>>
    /\ report # <<>>

\* C15: a job whose run-history fetch failed has a results entry with
\* status "failed" in the report of the batch.
C15_HistoryFailureReported ==
    (entry = "batch" /\ pc = "done" /\ outcome = "returned") =>
        \A i \in 1..Len(jobs) :
            (jobs[i].id # "" /\ jobs[i].history.kind \in {"non200",
                                                           "exception"}) =>
                \E k \in 1..Len(report["results"]) :
                    /\ report["results"][k].job_id = jobs[i].id
                    /\ report["results"][k].status = "failed"

\* The jobs request (or, after a 404, the fallback request) is answered with
\* an error status.
DiscoveryFailed ==
    \/ response.status = 500
    \/ response.status = 404 /\ response.fallback = 500

\* C16: a failed discovery call ends the batch at once, before any per-job
\* task, pipeline or report; a batch whose discovery call succeeded never
\* ends without its report.
C16_DiscoveryFailureAborts ==
    (entry = "batch" /\ pc # "created") =>
        IF DiscoveryFailed
        THEN /\ pc = "done"
             /\ outcome = "ClientResponseError"
             /\ acquired = 0
             /\ engine_calls = 0
             /\ results = <<>>
             /\ report = <<>>
        ELSE /\ outcome # "ClientResponseError"
             /\ pc = "done" => (outcome = "returned" /\ report # <<>>)

C16_Witness ==
    /\ entry = "batch"
    /\ pc = "done"
    /\ outcome = "ClientResponseError"
    /\ response.jobs # <<>>

\* C17: the state a run returns carries the job_id, job_name and run_id the
\* run was called with and is the state a fresh engine returns for the same
\* call, whatever runs the engine finished before.
C17_RunReturnsItsOwnState ==
    (entry = "engine" /\ pc = "called") =>
        /\ outcome = "returned"
        /\ returned # <<>>
        /\ returned["job_id"] = engine_state["job_id"]
        /\ returned["job_name"] = engine_state["job_name"]
        /\ Get(returned, "run_id", "") = engine_state["run_id"]
        /\ \E t \in Clock :
              returned = RCAEngine_run(engine_state["job_id"],
                                       engine_state["job_name"],
                                       engine_state["run_id"], t, env).state

\* C18: the state RCAEngine.run builds for its arguments holds every key
\* the validator requires, so the validation that opens the run succeeds.
C18_EngineInitialStateValid ==
    (entry = "engine" /\ pc = "called") =>
        /\ _required_keys \subseteq DOMAIN engine_state
        /\ validate(engine_state)

\* C19: a log_fetcher step consults IOMETE first, and Splunk exactly when
\* IOMETE answered without logs; when the step succeeds, log_source names
\* the backend whose logs are in the state ("none" when neither had any)
\* and logs is empty exactly when log_source is "none".
C19_PrimaryThenFallback ==
    (lastNode = "log_fetcher") =>
        LET calls == LogFetcherAgent_calls(prev, env)
            primary == IF env.iomete.ok THEN env.iomete.val ELSE ""
            fallback == IF env.splunk.ok THEN env.splunk.val ELSE ""
        IN  /\ calls # <<>>
            /\ calls[1] = "iomete"
            /\ (Len(calls) = 2) <=> (env.iomete.ok /\ primary = "")
            /\ Len(calls) = 2 => calls[2] = "splunk"
            /\ lastError = NoError =>
                  /\ state["log_source"] = "iomete" <=> primary # ""
                  /\ state["log_source"] = "splunk"
                        <=> (primary = "" /\ fallback # "")
                  /\ state["log_source"] = "none"
                        <=> (primary = "" /\ fallback = "")
                  /\ state["logs"] = "" <=> state["log_source"] = "none"

Invocations(node) == Cardinality({i \in 1..Len(invoked) : invoked[i] = node})

\* C21: whatever nodes fail, the walk goes on along the routed successors:
\* no node is invoked twice, a walk that has started reaches END, and at END
\* rca and solution have been invoked, solution last.
C21_WalkNeverAborts ==
    /\ [](\A n \in Nodes : Invocations(n) <= 1)
    /\ []((pc = END) =>
             /\ Invocations("rca") = 1
             /\ Invocations("solution") = 1
             /\ invoked[Len(invoked)] = "solution")
    /\ []((pc \in Nodes) => <>(pc = END))

\* A walk reached END although a node failed on the way.
C21_Witness ==
    /\ pc = END
    /\ Len(succeeded) < Len(invoked)
    /\ Len(invoked) >= 4

\* C22: while the walk is under way or has just reached END, before the
\* engine finalizes, the status is "running", also after a node has failed.
C22_RunningUntilFinalize ==
    (pc \in Nodes \cup {END}) => state["status"] = "running"

AuditKeys == {"agent_history", "decision_path", "confidence_scores"}

\* C23: the partial update of a node that succeeded carries the three audit
\* records together: one agent_history entry naming the node, one
\* decision_path element, the node's name, and the confidence scores of the
\* state with the node's own score set to the confidence of its result.
C23_AuditRecordsTogether ==
    (lastNode \in Nodes /\ lastError = NoError) =>
        /\ AuditKeys \subseteq DOMAIN update
        /\ Len(update["agent_history"]) = 1
        /\ update["agent_history"][1].agent = lastNode
        /\ update["decision_path"] = <<lastNode>>
        /\ DOMAIN update["confidence_scores"]
              = (DOMAIN prev["confidence_scores"]) \cup {lastNode}
        /\ update["confidence_scores"][lastNode]
              = update["agent_history"][1].result.confidence
        /\ \A n \in (DOMAIN prev["confidence_scores"]) \ {lastNode} :
              update["confidence_scores"][n] = prev["confidence_scores"][n]

\* A node succeeded after another node had recorded its score.
C23_Witness ==
    /\ lastNode \in Nodes
    /\ lastError = NoError
    /\ (DOMAIN prev["confidence_scores"]) \ {lastNode} # {}

\* C24: at the end of a walk the errors sequence has one entry per node
\* that failed, in the order of the failures.
C24_OneErrorPerFailedNode ==
    (pc = END) =>
        LET failures == SelectSeq(invoked,
                            LAMBDA n : \A i \in 1..Len(succeeded) :
                                           succeeded[i] # n)
        IN  /\ Len(state["errors"]) = Len(failures)
            /\ \A i \in 1..Len(failures) :
                  state["errors"][i].source = failures[i]

\* C25: every per-job task enters the semaphore block before it works and
\* leaves it when it finishes, with a pair, with None or with an exception:
\* the free slots and the tasks inside always add up to the width, once
\* gather has returned every slot is free again, and every job of the
\* payload gets a slot and finishes (gather returns).
C25_GateAcquiredAndReleased ==
    /\ [](released <= acquired /\ acquired <= Len(jobs))
    /\ []((pc = "gather") => semaphore + InFlightTasks = SemaphoreWidth)
    /\ []((pc = "dispatch" /\ jobs # <<>>) =>
            /\ semaphore = SemaphoreWidth
            /\ acquired = Len(jobs)
            /\ released = Len(jobs))
    /\ ((pc = "gather") ~> (pc = "dispatch" /\ released = Len(jobs)))

\* More jobs than slots, tasks ending in each of the three ways, and gather
\* has returned.
C25_Witness ==
    /\ pc = "dispatch"
    /\ Len(jobs) > SemaphoreWidth
    /\ semaphore = SemaphoreWidth
    /\ \E i, j, k \in 1..Len(jobs) :
          /\ Len(_process_single_job(jobs[i])) = 2
          /\ _process_single_job(jobs[j]) = None
          /\ Len(_process_single_job(jobs[k])) = 1

\* The runs of a history whose termination timestamp parses.
TimedRuns(runs) == SelectSeq(runs, LAMBDA run : Parseable(run.terminationTime))

\* C26: a run without a parseable termination timestamp is never the
\* selected run, and the selection is the one made from the history without
\* such runs; a job with no run that has both a parseable timestamp and
\* driver status FAILED or ABORTED yields no pair, no entry of the results
\* and no error: the batch ends with its report.
C26_UntimedRunsIgnored ==
    (pc \in {"dispatch", "awaited", "done"} /\ Len(jobs) = 1) =>
        LET runs == jobs[1].history.runs
        IN  /\ \A i \in 1..Len(failed_jobs_with_runs) :
                  \E k \in 1..Len(runs) :
                      /\ runs[k].id = failed_jobs_with_runs[i][2].run_id
                      /\ Parseable(runs[k].terminationTime)
            /\ failed_jobs_with_runs
                   = valid_results(<<Job(jobs[1].id, jobs[1].history.kind,
                                         TimedRuns(runs))>>)
            /\ QualifyingRuns(runs) = {} =>
                  /\ failed_jobs_with_runs = <<>>
                  /\ results = <<>>
                  /\ outcome \in {"pending", "returned"}
                  /\ pc = "done" => /\ outcome = "returned"
                                    /\ report["results"] = <<>>

\* A failed run without a parseable timestamp next to runs that have one:
\* the report of a batch whose only job was dropped.
C26_Witness ==
    /\ pc = "done"
    /\ Len(jobs) = 1
    /\ QualifyingRuns(jobs[1].history.runs) = {}
    /\ TimedRuns(jobs[1].history.runs) # <<>>
    /\ \E k \in 1..Len(jobs[1].history.runs) :
          /\ ~Parseable(jobs[1].history.runs[k].terminationTime)
          /\ jobs[1].history.runs[k].driverStatus = "FAILED"
    /\ report["results"] = <<>>

AllowedOrders ==
    {<<"log_fetcher", "summarizer", "lineage", "rca", "solution">>,
     <<"log_fetcher", "summarizer", "lineage", "category", "rca",
       "solution">>,
     <<"log_fetcher", "driver_failure", "rca", "solution">>,
     <<"log_fetcher", "driver_failure", "lineage", "rca", "solution">>,
     <<"log_fetcher", "driver_failure", "lineage", "category", "rca",
       "solution">>}

\* C28: the nodes invoked in a walk follow one of the allowed orders: the
\* nodes run so far, and the node about to run, are the beginning of one,
\* and the nodes of a finished walk are exactly one; so log_fetcher is
\* first, rca comes right before solution, solution is last, and
\* summarizer and driver_failure never both run.
C28_NodeOrder ==
    /\ \E o \in AllowedOrders : IsPrefix(invoked, o)
    /\ (pc \in Nodes) =>
          \E o \in AllowedOrders : IsPrefix(Append(invoked, pc), o)
    /\ (pc = END) =>
          /\ invoked \in AllowedOrders
          /\ invoked[1] = "log_fetcher"
          /\ invoked[Len(invoked) - 1] = "rca"
          /\ invoked[Len(invoked)] = "solution"
    /\ ~(Invocations("summarizer") > 0 /\ Invocations("driver_failure") > 0)

\* A finished walk that went through the driver_failure, lineage and
\* category nodes.
C28_Witness ==
    /\ pc = END
    /\ invoked = <<"log_fetcher", "driver_failure", "lineage", "category",
                   "rca", "solution">>

\* The nodes that can run before the lineage node.
BeforeLineage == {"log_fetcher", "summarizer", "driver_failure"}

\* C29: in a walk that starts from the initial state, category is empty
\* when the edge leaving lineage is evaluated: none of the nodes that can
\* run before lineage, nor lineage itself, puts category in its update;
\* so the edge always leads to the category node, never straight to rca.
C29_RuleCAlwaysCategory ==
    /\ (pc \in Nodes /\ Invocations("lineage") = 0) =>
          /\ state["category"] = ""
          /\ \A n \in BeforeLineage \cup {"lineage"} :
                "category" \notin DOMAIN NodeRun(n, state, env)
    /\ (lastNode = "lineage") =>
          /\ prev["category"] = ""
          /\ state["category"] = ""
          /\ _route_after_lineage(state) = "category"
          /\ pc = "category"

\* The lineage node has just run and the walk is about to run category.
C29_Witness ==
    /\ lastNode = "lineage"
    /\ pc = "category"
    /\ "driver_failure" \in {invoked[i] : i \in 1..Len(invoked)}

\* The sum of the three log-source counters.
LogSourceCount(c) ==
    c.logs_fetched_from_iomete + c.logs_fetched_from_splunk
        + c.jobs_without_logs_in_sources

\* The entries of a results list with status "processed".
ProcessedEntries(res) == {i \in 1..Len(res) : res[i].status = "processed"}

\* C30: the report of a batch lists one entry per pair the discovery
\* returned, in order, with the job_id and run_id of the pair; its processed
\* count is the number of entries; its three log-source counters add up to
\* the number of entries with status "processed", so an entry with status
\* "failed" is counted by none of them.  The counters and the entries agree
\* after every pair.
C30_ReportConsistent ==
    /\ (entry = "batch" /\ pc \in {"dispatch", "done"}) =>
          LogSourceCount(counters) = Cardinality(ProcessedEntries(results))
    /\ (entry = "batch" /\ pc = "done" /\ outcome = "returned") =>
          /\ Len(report["results"]) = Len(failed_jobs_with_runs)
          /\ report["Total failed jobs"] = Len(failed_jobs_with_runs)
          /\ \A i \in 1..Len(failed_jobs_with_runs) :
                /\ report["results"][i].job_id
                       = failed_jobs_with_runs[i][1].job_id
                /\ report["results"][i].run_id
                       = failed_jobs_with_runs[i][2].run_id
          /\ report["Number of jobs processed"] = Len(report["results"])
          /\ report["Logs fetched from IOMETE"]
                + report["Logs fetched from splunk"]
                + report["Number of jobs whose logs are not available in iomete or splunk"]
             = Cardinality(ProcessedEntries(report["results"]))

\* The report of a batch of two pairs, one of them with a failed entry.
C30_Witness ==
    /\ entry = "batch"
    /\ pc = "done"
    /\ outcome = "returned"
    /\ Len(failed_jobs_with_runs) = 2
    /\ report["Number of jobs processed"] = 2
    /\ \E i \in 1..2 : report["results"][i].status = "failed"

====
